---- MODULE Spec2Model ----
(***************************************************************************)
(* Model of the TypeScript -> JSX conversion pipeline                      *)
(* (scripts/run-conversion.js, class UnifiedConverter), of its self-test   *)
(* (class WorkflowTester) and of the CI workflow that drives it            *)
(* (.github/workflows/sync-and-deploy.yml).                                *)
(*                                                                         *)
(* The file system is a function from paths to entries.  A path is a       *)
(* sequence of names relative to the project root, a name is a pair        *)
(* <<base, extension>> ("app.tsx" is <<"app", "tsx">>, a name without an   *)
(* extension has extension ""), and a file's content is a sequence of      *)
(* lexemes.  Every entry records the number of the run that wrote it       *)
(* (0: it was there before the first run).                                 *)
(***************************************************************************)
EXTENDS Integers, Sequences, FiniteSets, TLC

VARIABLES
    fs,          \* the project root: path -> [dir, c, run]
    pc,          \* position of UnifiedConverter.run
    runNo,       \* number of the current (or last) run of the conversion script
    env,         \* what the outside world does in this run (tools, compiler, disk)
    outcome,     \* how the last run ended
    convResult,  \* what convertTypeScriptFiles returned in this run
    invocations, \* the compiler invocations of this run, in order: [ok, emitted]
    afterCopy,   \* the staging tree as copyProjectStructure left it in this run
    emittedTree, \* the compiler output directory as processJavaScriptFiles found it
    prevOut,     \* the staging tree at the end of the previous run
    prevEnv,     \* the outside world of the previous run
    stats,       \* the statistics generateStats printed in this run
    driver,      \* who runs the script: "local", "workflow" (CI) or "selftest"
    event,       \* github.event_name of the workflow run
    job,         \* the workflow's jobs: name -> status
    step,        \* the step the running job is at
    outputs,     \* the job outputs has_changes and conversion_success
    artifact,    \* the uploaded artifact jsx-conversion-output
    template,    \* the template repository: [tree, pushes]
    tpc,         \* position of WorkflowTester.run
    checks,      \* the results of the self-test's four checks
    exitCode,    \* the self-test's exit code (-1: still running)
    fleet        \* the workflow runs of the repository and the template's history

pipeVars == <<fs, pc, runNo, env, outcome, convResult, invocations,
              afterCopy, emittedTree, prevOut, prevEnv, stats>>
ciVars == <<driver, event, job, step, outputs, artifact, template, tpc, checks, exitCode,
            fleet>>

(***************************************************************************)
(* Bounds                                                                  *)
(***************************************************************************)
MaxRuns == 2

(***************************************************************************)
(* Names and paths                                                         *)
(***************************************************************************)
N(base, ext) == <<base, ext>>
D(base) == <<base, "">>
Ext(name) == name[2]
Base(name) == name[1]
Last(p) == p[Len(p)]
Parent(p) == SubSeq(p, 1, Len(p) - 1)

IsPrefix(d, p) == Len(d) <= Len(p) /\ SubSeq(p, 1, Len(d)) = d
Inside(d, p) == IsPrefix(d, p) /\ p # d
Rebase(from, to, p) == to \o SubSeq(p, Len(from) + 1, Len(p))

\* UnifiedConverter.constructor
SourceDir == <<D("resources"), D("js")>>
OutputDir == <<D("output")>>
JsOutputDir == OutputDir \o <<D("js")>>
\* (a variant that writes the transient config into the staging directory)
TsconfigPathInStaging == OutputDir \o <<N("tsconfig.temp", "json")>>
TsconfigPath == <<N("tsconfig.temp", "json")>>

(***************************************************************************)
(* File-system primitives (node:fs)                                        *)
(***************************************************************************)
NoTree == [p \in {} |-> [dir |-> FALSE, c |-> <<>>, run |-> 0]]

Exists(f, p) == p \in DOMAIN f
IsDir(f, p) == p \in DOMAIN f /\ f[p].dir
IsFile(f, p) == p \in DOMAIN f /\ ~f[p].dir
Children(f, d) == {p \in DOMAIN f : Inside(d, p)}

Put(f, p, e) == [q \in DOMAIN f \cup {p} |-> IF q = p THEN e ELSE f[q]]

\* fs.rmSync(p, {recursive: true, force: true}) and fs.rmSync(file)
RmRf(f, p) == [q \in {r \in DOMAIN f : ~IsPrefix(p, r)} |-> f[q]]

\* fs.mkdirSync(d, {recursive: true}) behind an existsSync test
EnsureDirectory(f, d, r) ==
    LET missing == {SubSeq(d, 1, i) : i \in 1..Len(d)} \ DOMAIN f
    IN  [q \in DOMAIN f \cup missing |->
            IF q \in missing THEN [dir |-> TRUE, c |-> <<>>, run |-> r] ELSE f[q]]

\* fs.writeFileSync(p, c)
WriteFile(f, p, c, r) == Put(f, p, [dir |-> FALSE, c |-> c, run |-> r])

\* fs.copyFileSync(from, to)
CopyFile(f, from, to, r) == WriteFile(f, to, f[from].c, r)

\* fs.renameSync(from, to): an existing file at `to` is replaced
Rename(f, from, to) ==
    [q \in (DOMAIN f \ {from}) \cup {to} |-> IF q = to THEN f[from] ELSE f[q]]

\* The part of f below directory d, without the run marks: what a byte-wise
\* comparison of two trees sees.
TreeAt(f, d) ==
    [p \in {q \in DOMAIN f : Inside(d, q)} |-> [dir |-> f[p].dir, c |-> f[p].c]]

StagingTree(f) == TreeAt(f, OutputDir)

(***************************************************************************)
(* Text of the files, as sequences of lexemes, and the text rewrites       *)
(***************************************************************************)
WordChars == {"a", "b", "j", "p", "s", "t", "x"}
Whitespace == {" ", "\n"}

\* original.match(/<\w[\s>/]/): "<", one word character, then whitespace,
\* ">" or "/".  A lexeme of several word characters ("div", "App") fails the
\* third position.
LooksLikeMarkup(c) ==
    \E i \in 1..(Len(c) - 2) :
        /\ c[i] = "<"
        /\ c[i + 1] \in WordChars
        /\ c[i + 2] \in Whitespace \cup {">", "/"}

\* String.prototype.replace with a global pattern of fixed text: every
\* occurrence, found left to right without overlap, is replaced.
RECURSIVE ReplaceAll(_, _, _)
ReplaceAll(c, pat, new) ==
    IF Len(c) < Len(pat) THEN c
    ELSE IF SubSeq(c, 1, Len(pat)) = pat
         THEN new \o ReplaceAll(SubSeq(c, Len(pat) + 1, Len(c)), pat, new)
         ELSE <<c[1]>> \o ReplaceAll(Tail(c), pat, new)

\* String.prototype.replace with a string pattern: the first occurrence only.
RECURSIVE ReplaceFirst(_, _, _)
ReplaceFirst(c, pat, new) ==
    IF Len(c) < Len(pat) THEN c
    ELSE IF SubSeq(c, 1, Len(pat)) = pat
         THEN new \o SubSeq(c, Len(pat) + 1, Len(c))
         ELSE <<c[1]>> \o ReplaceFirst(Tail(c), pat, new)

\* c.includes(pat)
Includes(c, pat) == \E i \in 1..(Len(c) - Len(pat) + 1) : SubSeq(c, i, i + Len(pat) - 1) = pat

\* The extension of a reference is spelled character by character.
DotTsx == <<".", "t", "s", "x">>
DotJsx == <<".", "j", "s", "x">>

\* content.replace(/\.tsx/g, '.jsx')
ReplaceTsxRefs(c) == ReplaceAll(c, DotTsx, DotJsx)

\* What tsc emits for a source text under the generated configuration:
\* type annotations (the lexeme ":T") are erased, markup is preserved
\* (jsx: 'preserve'), import specifiers are left as written.
TscEmit(c) == SelectSeq(c, LAMBDA l : l # ":T")

\* The emitted file's extension: with jsx 'preserve' a .tsx source is emitted
\* as .jsx, a .ts source as .js; allowJs passes .js and .jsx sources through.
EmitExt(e) ==
    CASE e = "ts" -> "js"
      [] e = "tsx" -> "jsx"
      [] OTHER -> e

\* exclude: ['**/*.d.ts']
IsDeclaration(name) == Ext(name) = "ts" /\ Base(name) \in {"index.d", "global.d"}

---------------------------------------------------------------------------
\* updateOutputEslintConfig: /ignores:\s*\[([^\]]*)]/ and its replacer.

\* A string literal is a quote, its text and the same quote again.
Quotes == {"'", "\""}
\* texts that begin with output/
OutputSlash == {"output/", "output/**"}

\* item.includes("'output'") || item.includes('"output"') ||
\* item.includes("'output/") || item.includes('"output/')
MentionsOutput(item) ==
    \E i \in 1..(Len(item) - 1) :
        /\ item[i] \in Quotes
        /\ \/ item[i + 1] \in OutputSlash
           \/ item[i + 1] = "output" /\ i + 2 <= Len(item) /\ item[i + 2] = item[i]

RECURSIVE SkipWs(_, _)
SkipWs(c, i) == IF i <= Len(c) /\ c[i] \in Whitespace THEN SkipWs(c, i + 1) ELSE i

\* First index >= i holding lexeme l, or 0.
RECURSIVE IndexFrom(_, _, _)
IndexFrom(c, l, i) ==
    IF i > Len(c) THEN 0 ELSE IF c[i] = l THEN i ELSE IndexFrom(c, l, i + 1)

\* The match of the regex that starts at i: <<index of "[", index of "]">>,
\* or <<0, 0>>.
IgnoresMatchAt(c, i) ==
    IF i > Len(c) \/ c[i] # "ignores:" THEN <<0, 0>>
    ELSE LET open == SkipWs(c, i + 1)
         IN  IF open > Len(c) \/ c[open] # "[" THEN <<0, 0>>
             ELSE LET close == IndexFrom(c, "]", open + 1)
                  IN  IF close = 0 THEN <<0, 0>> ELSE <<open, close>>

\* ignoresList.split(',')
RECURSIVE SplitComma(_)
SplitComma(c) ==
    LET k == IndexFrom(c, ",", 1)
    IN  IF k = 0 THEN <<c>>
        ELSE <<SubSeq(c, 1, k - 1)>> \o SplitComma(SubSeq(c, k + 1, Len(c)))

\* item.trim()
RECURSIVE Trim(_)
Trim(c) ==
    IF c = <<>> THEN c
    ELSE IF c[1] \in Whitespace THEN Trim(Tail(c))
    ELSE IF c[Len(c)] \in Whitespace THEN Trim(SubSeq(c, 1, Len(c) - 1))
    ELSE c

\* the filter's predicate
KeepIgnore(item) == item # <<>> /\ ~MentionsOutput(item)

\* .join(', ')
RECURSIVE JoinComma(_)
JoinComma(items) ==
    IF items = <<>> THEN <<>>
    ELSE IF Len(items) = 1 THEN items[1]
    ELSE items[1] \o <<",", " ">> \o JoinComma(Tail(items))

MapTrim(items) == [i \in 1..Len(items) |-> Trim(items[i])]

RewriteIgnores(c) ==
    LET starts == {i \in 1..Len(c) : IgnoresMatchAt(c, i)[1] # 0}
    IN  IF starts = {} THEN c
        ELSE LET i == CHOOSE j \in starts : \A k \in starts : j <= k
                 m == IgnoresMatchAt(c, i)
                 list == SubSeq(c, m[1] + 1, m[2] - 1)
                 kept == SelectSeq(MapTrim(SplitComma(list)), KeepIgnore)
             IN  SubSeq(c, 1, i - 1) \o <<"ignores:", " ", "[">> \o JoinComma(kept)
                   \o <<"]">> \o SubSeq(c, m[2] + 1, Len(c))

---------------------------------------------------------------------------
\* The configuration rewrites of run().  The bundler config, the view template
\* and the package manifests are sequences of statements / fields.

ViteTypeImports == {"import type { UserConfig } from 'vite';",
                    "import { type Plugin } from 'vite';"}
NodePathImport == "import { resolve } from 'node:path';"
NodeUrlImport == "import { fileURLToPath, URL } from 'node:url';"
DirnameExpr == "fileURLToPath(new URL('.', import.meta.url))"
\* the statements /(import\s+\{[^}]*\}\s+from\s+['"]node:path['"];?)/ matches
NodePathImports == {NodePathImport, "import { resolve, join } from \"node:path\""}
\* the statements that bind fileURLToPath, and the lexemes
\* content.includes('fileURLToPath') finds
FileUrlImports == {NodeUrlImport, "import { fileURLToPath } from 'url';"}
FileUrlLexemes == FileUrlImports \cup {DirnameExpr, "// fileURLToPath"}

\* lines 396-401: the type-import regexes, the two path substitutions and the
\* blank-line regex
ViteStrip(c) ==
    LET kept == SelectSeq(c, LAMBDA l : l \notin ViteTypeImports /\ l # "\n")
    IN  [i \in 1..Len(kept) |->
            CASE kept[i] = "resources/js/app.tsx" -> "resources/js/app.jsx"
              [] kept[i] = "resources/js/ssr.tsx" -> "resources/js/ssr.jsx"
              [] OTHER -> kept[i]]

Mentions(c, l) == \E i \in 1..Len(c) : c[i] = l

\* lines 404-417: the ESM replacement of __dirname
RECURSIVE InsertAfter(_, _, _)
InsertAfter(c, L, new) ==
    IF c = <<>> THEN c
    ELSE IF c[1] \in L THEN <<c[1], new>> \o Tail(c)
    ELSE <<c[1]>> \o InsertAfter(Tail(c), L, new)

ViteDirname(c) ==
    IF ~Mentions(c, "__dirname") THEN c
    ELSE LET withImport ==
                 IF \E i \in 1..Len(c) : c[i] \in FileUrlLexemes THEN c
                 ELSE InsertAfter(c, NodePathImports, NodeUrlImport)
         IN  [i \in 1..Len(withImport) |->
                 IF withImport[i] = "__dirname" THEN DirnameExpr ELSE withImport[i]]

ViteRewrite(c) == ViteDirname(ViteStrip(c))

\* lines 429-432
BladeOld == "@vite(['resources/js/app.tsx', \"resources/js/pages/{$page['component']}.tsx\"])"
BladeNew == "@vite(['resources/js/app.jsx', \"resources/js/pages/{$page['component']}.jsx\"])"
BladeRewrite(c) == [i \in 1..Len(c) |-> IF c[i] = BladeOld THEN BladeNew ELSE c[i]]

\* package.json, read by JSON.parse: the content is one object with the fields
\* name and description (texts in pieces, <<>> when the field is missing or
\* empty), devDependencies (hasDev: the object is there; dev: its keys) and the
\* indentation of the text.
TypeDevDeps == {"typescript", "@types/node", "@types/react", "@types/react-dom"}
OldKit == <<"react-starter-kit">>
NewKit == <<"react-jsx-starter-kit">>

\* (a variant that renames the package and keeps its dependencies)
PackageRewriteKeepingTypes(c) ==
    <<[c[1] EXCEPT !.name = ReplaceFirst(c[1].name, OldKit, NewKit), !.indent = 2]>>

\* lines 458-477: the name, the description, the four deletions, JSON.stringify
PackageRewrite(c) ==
    LET j == c[1]
    IN  <<[name |-> IF j.name # <<>> /\ Includes(j.name, OldKit)
                    THEN ReplaceFirst(j.name, OldKit, NewKit) ELSE j.name,
           description |-> IF j.description # <<>>
                           THEN ReplaceFirst(j.description, <<"TypeScript">>, <<"JavaScript/JSX">>)
                           ELSE j.description,
           hasDev |-> j.hasDev,
           dev |-> IF j.hasDev THEN j.dev \ TypeDevDeps ELSE j.dev,
           indent |-> 2]>>

IsNameField(l) == l \in {"name:laravel/react-starter-kit", "name:aliziodev/react-jsx-starter-kit"}
IsTsxField(l) == l \in {"tsx:true", "tsx:false"}

\* line 487: composerJson.name = 'aliziodev/react-jsx-starter-kit'
ComposerRewrite(c) ==
    IF \E i \in 1..Len(c) : IsNameField(c[i])
    THEN [i \in 1..Len(c) |-> IF IsNameField(c[i]) THEN "name:aliziodev/react-jsx-starter-kit" ELSE c[i]]
    ELSE Append(c, "name:aliziodev/react-jsx-starter-kit")

\* line 499: componentsJson.tsx = false
ComponentsRewrite(c) ==
    IF \E i \in 1..Len(c) : IsTsxField(c[i])
    THEN [i \in 1..Len(c) |-> IF IsTsxField(c[i]) THEN "tsx:false" ELSE c[i]]
    ELSE Append(c, "tsx:false")

\* lines 508-541
TemplateReadme == <<"# Laravel + React JSX Starter Kit">>

(***************************************************************************)
(* Project roots the script is run on                                      *)
(***************************************************************************)
File(p, c) == <<p, FALSE, c>>
Dir(p) == <<p, TRUE, <<>>>>
MkTree(S) ==
    [p \in {t[1] : t \in S} |->
        LET t == CHOOSE u \in S : u[1] = p
        IN  [dir |-> t[2], c |-> t[3], run |-> 0]]

AppTsx == <<"import", "./pages">> \o DotTsx \o <<";", "<", "App", "/", ">", ":T">>
SsrTsx == <<"import", "./app">> \o DotTsx \o <<";", "render", ":T">>
\* a server-rendering entry written as a plain .ts module
SsrTs == <<"import", "./pages">> \o DotTsx \o <<";", "render", ":T">>
\* a.ts holds no markup, only a string literal that looks like a tag
SiblingTs == <<"s", "=", "'", "<", "p", ">", "'", ":T">>
\* a.tsx is a component file without markup (a hook)
SiblingTsx == <<"x", ":T">>
PackageJson ==
    <<[name |-> <<"vendor/", "react-starter-kit">>,
       description |-> <<"A ", "TypeScript", " starter">>,
       hasDev |-> TRUE, dev |-> {"typescript", "vite"}, indent |-> 4]>>
ViteConfigTs == <<"import type { UserConfig } from 'vite';", NodePathImport, "\n",
                  "resources/js/app.tsx", "__dirname">>
AppBlade == <<"<html>", BladeOld>>
\* the literal 'text', and the literal "text"
Sq(text) == <<"'", text, "'">>
Dq(text) == <<"\"", text, "\"">>
EslintConfig ==
    <<"export default [{", "ignores:", "[">> \o Sq("vendor") \o <<",", " ">> \o Sq("output")
      \o <<",", " ">> \o Sq("bootstrap/ssr") \o <<"]", "}];">>

Views == <<D("resources"), D("views")>>
Workflows == <<D(".github"), D("workflows")>>
TemplateWorkflows == <<D("templates"), D("workflows")>>

BaseFiles ==
    { File(<<N("package", "json")>>, PackageJson),
      Dir(<<D("resources")>>), Dir(Views),
      File(Views \o <<N("app.blade", "php")>>, AppBlade),
      File(<<N("vite.config", "ts")>>, ViteConfigTs),
      Dir(<<D("scripts")>>),
      File(<<D("scripts"), N("run-conversion", "js")>>, <<"UnifiedConverter">>) }

SrcFiles ==
    { Dir(SourceDir),
      File(SourceDir \o <<N("app", "tsx")>>, AppTsx),
      File(SourceDir \o <<N("ssr", "tsx")>>, SsrTsx),
      Dir(SourceDir \o <<D("types")>>),
      File(SourceDir \o <<D("types"), N("index.d", "ts")>>, <<":T">>) }

SiblingFiles ==
    { File(SourceDir \o <<N("a", "ts")>>, SiblingTs),
      File(SourceDir \o <<N("a", "tsx")>>, SiblingTsx) }

\* a project whose server-rendering entry is ssr.ts
TsEntryFiles ==
    { Dir(SourceDir),
      File(SourceDir \o <<N("app", "tsx")>>, AppTsx),
      File(SourceDir \o <<N("ssr", "ts")>>, SsrTs) }

\* a directory named js at the top of the project
RootJsFiles == { Dir(<<D("js")>>), File(<<D("js"), N("legacy", "txt")>>, <<"x">>) }

EslintFiles == { File(<<N("eslint.config", "js")>>, EslintConfig) }

MetaFiles ==
    { Dir(<<D(".github")>>), Dir(Workflows),
      File(Workflows \o <<N("lint", "yml")>>, <<"lint">>),
      File(Workflows \o <<N("sync-and-deploy", "yml")>>, <<"sync">>),
      File(<<D(".github"), N("dependabot", "yml")>>, <<"updates">>),
      Dir(<<D("templates")>>), Dir(TemplateWorkflows),
      File(TemplateWorkflows \o <<N("auto-release", "yml")>>, <<"release">>),
      Dir(<<D("node_modules")>>),
      File(<<D("node_modules"), N("m", "js")>>, <<"x">>),
      File(<<D(".env")>>, <<"SECRET">>),
      Dir(<<D("storage")>>), Dir(<<D("storage"), D("logs")>>),
      File(<<D("storage"), D("logs"), N("laravel", "log")>>, <<"log">>),
      File(<<N("tsconfig", "json")>>, <<"{}">>),
      File(<<N("composer", "json")>>, <<"name:laravel/react-starter-kit">>),
      File(<<N("components", "json")>>, <<"tsx:true">>),
      File(<<N("README", "md")>>, <<"# Development Repository">>) }

\* a project with workflows of its own and no templates directory
OwnWorkflowFiles ==
    { Dir(<<D(".github")>>), Dir(Workflows),
      File(Workflows \o <<N("tests", "yml")>>, <<"tests">>),
      File(Workflows \o <<N("auto-release", "yml")>>, <<"own release">>),
      File(Workflows \o <<N("sync-and-deploy", "yml")>>, <<"sync">>) }

\* a project with the release template and no .github directory
TemplateOnlyFiles ==
    { Dir(<<D("templates")>>), Dir(TemplateWorkflows),
      File(TemplateWorkflows \o <<N("auto-release", "yml")>>, <<"release">>) }

\* the four directories the self-test requires, one component in each
DirFiles ==
    { Dir(SourceDir \o <<D("components")>>),
      File(SourceDir \o <<D("components"), N("button", "tsx")>>, <<"<", "Button", "/", ">">>),
      Dir(SourceDir \o <<D("pages")>>),
      File(SourceDir \o <<D("pages"), N("welcome", "tsx")>>, <<"<", "a", " ", "href", ">">>),
      Dir(SourceDir \o <<D("layouts")>>),
      File(SourceDir \o <<D("layouts"), N("app-layout", "tsx")>>, <<"<", "div", ">">>),
      Dir(SourceDir \o <<D("hooks")>>),
      File(SourceDir \o <<D("hooks"), N("use-mobile", "tsx")>>, <<"x", ":T">>) }

\* a project whose entry files and bundler config are JavaScript already
JsInputFiles ==
    { Dir(SourceDir),
      File(SourceDir \o <<N("app", "jsx")>>, <<"<", "App", "/", ">">>),
      File(SourceDir \o <<N("ssr", "jsx")>>, <<"render">>),
      File(<<N("vite.config", "js")>>, <<NodePathImport>>) }

FeatureFiles(x) ==
    CASE x = "src" -> SrcFiles
      [] x = "dirs" -> DirFiles
      [] x = "jsinputs" -> JsInputFiles
      [] x = "novite" -> {}
      [] x = "tsentry" -> TsEntryFiles
      [] x = "ownflows" -> OwnWorkflowFiles
      [] x = "template" -> TemplateOnlyFiles
      [] x = "sibling" -> SiblingFiles
      [] x = "rootjs" -> RootJsFiles
      [] x = "eslint" -> EslintFiles
      [] x = "meta" -> MetaFiles

ProjectRoot(features) ==
    MkTree((BaseFiles \cup UNION {FeatureFiles(x) : x \in features})
             \ (IF "novite" \in features
                THEN {File(<<N("vite.config", "ts")>>, ViteConfigTs)} ELSE {}))

\* The project roots of Spec: source files only where the source directory exists.
Projects ==
    {F \in SUBSET {"src", "sibling", "rootjs", "eslint", "meta"} :
        "sibling" \in F => "src" \in F} \cup {{"tsentry"}}

(***************************************************************************)
(* copyProjectStructure and copyProjectFiles                               *)
(***************************************************************************)
ExcludeDirs == {D("output"), D("node_modules"), D("scripts"), D("vendor"),
                D("templates"), D("storage/logs"), D(".git")}
ExcludeFiles == {N("composer", "lock"), D(".env"), N("workflow-test-report", "json")}

\* copyProjectFiles skips an item, file or directory, at every depth, when its
\* name is in one of the lists or is .github.
Skipped(name) == name \in ExcludeDirs \cup ExcludeFiles \cup {D(".github")}
Copyable(p) == \A i \in 1..Len(p) : ~Skipped(p[i])

\* fs.readdirSync lists names in code-unit order
ReaddirOrder ==
    << D(".env"), D(".github"), N("README", "md"), N("a", "ts"), N("a", "tsx"),
       N("app-layout", "tsx"), N("app.blade", "php"), N("app", "jsx"), N("app", "tsx"),
       N("auto-release", "yml"), N("button", "tsx"), D("components"),
       N("components", "json"), N("composer", "json"), N("dependabot", "yml"),
       N("eslint.config", "js"),
       D("hooks"), N("index.d", "ts"), D("js"), N("laravel", "log"), D("layouts"),
       N("legacy", "txt"), N("lint", "yml"), D("logs"), N("m", "js"),
       D("node_modules"), D("output"), N("package", "json"), D("pages"),
       D("resources"), N("run-conversion", "js"), D("scripts"), N("ssr", "jsx"),
       N("ssr", "ts"), N("ssr", "tsx"), D("storage"), N("sync-and-deploy", "yml"), D("templates"),
       N("tests", "yml"), N("tsconfig", "json"), N("tsconfig.temp", "json"), D("types"),
       N("use-mobile", "tsx"), D("views"), N("vite.config", "js"),
       N("vite.config", "ts"), N("welcome", "tsx"), D("workflows") >>
Rank(name) == CHOOSE i \in 1..Len(ReaddirOrder) : ReaddirOrder[i] = name

\* q is visited before p by the depth-first walk
VisitedBefore(q, p) ==
    \/ Inside(q, p)
    \/ \E i \in 1..Len(q) :
          /\ i <= Len(p)
          /\ SubSeq(q, 1, i - 1) = SubSeq(p, 1, i - 1)
          /\ Rank(q[i]) < Rank(p[i])

\* The entries `paths` of the project, mirrored under the staging directory.
\* ensureDirectory keeps a directory that is already there.
Mirror(f, paths, r) ==
    LET targets == {OutputDir \o p : p \in paths}
    IN  [q \in DOMAIN f \cup targets |->
            IF q \in targets /\ ~(q \in DOMAIN f /\ f[q].dir)
            THEN LET p == SubSeq(q, 2, Len(q))
                 IN  [dir |-> f[p].dir, c |-> f[p].c, run |-> r]
            ELSE f[q]]

\* copyProjectFiles('.', outputDir, excludeDirs, excludeFiles)
CopyProjectFiles(f, r) == Mirror(f, {p \in DOMAIN f : Copyable(p)}, r)

\* copyProjectFiles when copyFileSync throws at file `bad`
CopyProjectFilesUntil(f, bad, r) ==
    Mirror(f, {p \in DOMAIN f : Copyable(p) /\ VisitedBefore(p, bad)}, r)

\* (a variant that lets the deployment workflow through)
AllowedWorkflowsAndSync == {N("lint", "yml"), N("tests", "yml"), N("sync-and-deploy", "yml")}
AllowedWorkflows == {N("lint", "yml"), N("tests", "yml")}

\* lines 228-255
CopyWorkflows(f, r) ==
    LET target == OutputDir \o Workflows
        f1 == IF Exists(f, Workflows) THEN EnsureDirectory(f, target, r) ELSE f
        allowed == {w \in AllowedWorkflows : Exists(f, Workflows \o <<w>>)}
        f2 == [q \in DOMAIN f1 \cup {target \o <<w>> : w \in allowed} |->
                  IF \E w \in allowed : q = target \o <<w>>
                  THEN [dir |-> FALSE, c |-> f[Workflows \o <<Last(q)>>].c, run |-> r]
                  ELSE f1[q]]
        release == TemplateWorkflows \o <<N("auto-release", "yml")>>
    IN  IF Exists(f, release)
        THEN CopyFile(EnsureDirectory(f2, target, r), release,
                      target \o <<N("auto-release", "yml")>>, r)
        ELSE f2

CopyStructure(f, r) == CopyWorkflows(CopyProjectFiles(f, r), r)

(***************************************************************************)
(* The compiler                                                            *)
(***************************************************************************)
\* include: [sourceDir], allowJs, exclude: node_modules, output, **/*.d.ts
Compilable(f) ==
    {p \in DOMAIN f :
        /\ Inside(SourceDir, p)
        /\ ~f[p].dir
        /\ Ext(Last(p)) \in {"ts", "tsx", "js", "jsx"}
        /\ ~IsDeclaration(Last(p))
        /\ \A i \in 1..Len(p) : p[i] \notin {D("node_modules"), D("output")}}

\* outDir: jsOutputDir, rootDir: sourceDir
EmitTarget(p) ==
    Rebase(SourceDir, JsOutputDir,
           Parent(p) \o <<N(Base(Last(p)), EmitExt(Ext(Last(p))))>>)

\* tsc writes the files of S, creating the directories they need
Emit(f, S, r) ==
    LET targets == {EmitTarget(p) : p \in S}
        dirs == UNION {{SubSeq(t, 1, i) : i \in 1..(Len(t) - 1)} : t \in targets}
    IN  [q \in DOMAIN f \cup targets \cup dirs |->
            IF q \in targets
            THEN LET p == CHOOSE s \in S : EmitTarget(s) = q
                 IN  [dir |-> FALSE, c |-> TscEmit(f[p].c), run |-> r]
            ELSE IF q \in DOMAIN f THEN f[q]
            ELSE [dir |-> TRUE, c |-> <<>>, run |-> r]]

\* fs.existsSync(jsOutputDir) && fs.readdirSync(jsOutputDir).length > 0
OutputExists(f) ==
    Exists(f, JsOutputDir) /\ {p \in DOMAIN f : Len(p) > 0 /\ Parent(p) = JsOutputDir} # {}

(***************************************************************************)
(* The outside world of one run                                            *)
(***************************************************************************)
NoPath == <<>>
Calm == [depOk |-> TRUE, copyFail |-> NoPath,
         ok1 |-> TRUE, emit1 |-> {}, ok2 |-> TRUE, emit2 |-> {},
         procFail |-> NoPath, refsFail |-> NoPath]

\* filesToUpdate, line 132
EntryFiles == {JsOutputDir \o <<N("app", "jsx")>>, JsOutputDir \o <<N("ssr", "jsx")>>}

\* What can happen to a run on project f: the compiler is missing; one file
\* cannot be copied; the compiler succeeds; it fails having emitted some files;
\* it emits nothing and is run again; one emitted file cannot be read or
\* renamed by the classifier; one entry file cannot be read or written by the
\* reference rewriter.
Worlds(f) ==
    LET all == Compilable(f)
        files == {p \in DOMAIN f : Copyable(p) /\ ~f[p].dir}
    IN  {[Calm EXCEPT !.depOk = FALSE]}
          \cup {[Calm EXCEPT !.copyFail = p] : p \in files}
          \cup {[Calm EXCEPT !.emit1 = all]}
          \cup {[Calm EXCEPT !.ok1 = FALSE, !.emit1 = S] : S \in SUBSET all \ {{}}}
          \cup {[Calm EXCEPT !.ok1 = FALSE, !.emit2 = all]}
          \cup {[Calm EXCEPT !.ok1 = FALSE, !.ok2 = FALSE, !.emit2 = S] : S \in SUBSET all}
          \cup {[Calm EXCEPT !.emit1 = all, !.procFail = EmitTarget(p)] : p \in all}
          \cup {[Calm EXCEPT !.emit1 = all, !.refsFail = q] : q \in EntryFiles}

(***************************************************************************)
(* UnifiedConverter.run, stage by stage                                    *)
(***************************************************************************)
Out(name) == OutputDir \o <<name>>
\* (a variant that puts the converted files where the sources are)
OutputResourcesJsInPlace == SourceDir
OutputResourcesJs == OutputDir \o SourceDir

\* run() returns (or its rejection is logged by .catch(console.error)): the
\* process ends.
End(how) ==
    /\ pc' = "ended"
    /\ outcome' = how

\* glob(`${sourceDir}/**/*.{ts,tsx}`)
SourceFiles(f) ==
    {p \in DOMAIN f : Inside(SourceDir, p) /\ ~f[p].dir /\ Ext(Last(p)) \in {"ts", "tsx"}}

\* glob(`${jsOutputDir}/**/*.{js,jsx}`)
JsFiles(f, d) ==
    {p \in DOMAIN f : Inside(d, p) /\ ~f[p].dir /\ Ext(Last(p)) \in {"js", "jsx"}}

\* generateStats, lines 199-211: the four numbers it prints
NoStats == [printed |-> FALSE, sources |-> 0, outputs |-> 0, config |-> 0, views |-> 0]
Stats(f) ==
    [printed |-> TRUE,
     sources |-> Cardinality(SourceFiles(f)),
     outputs |-> Cardinality(JsFiles(f, JsOutputDir)),
     config |-> IF Exists(f, Out(N("vite.config", "js"))) THEN 1 ELSE 0,
     views |-> IF Exists(f, OutputDir \o <<D("views"), N("app.blade", "php")>>) THEN 1 ELSE 0]

\* `node scripts/run-conversion.js` on the project as it is now
Launch ==
    /\ runNo' = runNo + 1
    /\ pc' = "checkDeps"
    /\ outcome' = "running"
    /\ convResult' = FALSE
    /\ invocations' = <<>>
    /\ afterCopy' = NoTree
    /\ emittedTree' = NoTree
    /\ stats' = NoStats

\* lines 343-346
CheckDependencies ==
    /\ pc = "checkDeps"
    /\ IF env.depOk THEN pc' = "checkSrc" /\ UNCHANGED outcome ELSE End("deps")
    /\ UNCHANGED <<fs, runNo, env, convResult, invocations, afterCopy, emittedTree,
                   prevOut, prevEnv, stats, ciVars>>

\* lines 347-350
CheckSourceDir ==
    /\ pc = "checkSrc"
    /\ IF Exists(fs, SourceDir) THEN pc' = "clean" /\ UNCHANGED outcome ELSE End("nosrc")
    /\ UNCHANGED <<fs, runNo, env, convResult, invocations, afterCopy, emittedTree,
                   prevOut, prevEnv, stats, ciVars>>

\* lines 353-357
CleanOutput ==
    /\ pc = "clean"
    /\ fs' = EnsureDirectory(EnsureDirectory(RmRf(fs, OutputDir), OutputDir, runNo),
                             JsOutputDir, runNo)
    /\ pc' = "copy"
    /\ UNCHANGED <<runNo, env, outcome, convResult, invocations, afterCopy, emittedTree,
                   prevOut, prevEnv, stats, ciVars>>

\* (a variant that logs a failed copy and goes on with the next stage)
CopyProjectStructureLenient ==
    /\ pc = "copy"
    /\ fs' = IF env.copyFail \in DOMAIN fs
             THEN CopyProjectFilesUntil(fs, env.copyFail, runNo)
             ELSE CopyStructure(fs, runNo)
    /\ afterCopy' = StagingTree(fs')
    /\ pc' = "eslint"
    /\ UNCHANGED <<runNo, env, outcome, convResult, invocations, emittedTree, prevOut,
                   prevEnv, stats, ciVars>>

\* line 360; an exception of copyFileSync leaves run()
CopyProjectStructure ==
    /\ pc = "copy"
    /\ IF env.copyFail \in DOMAIN fs
       THEN /\ fs' = CopyProjectFilesUntil(fs, env.copyFail, runNo)
            /\ End("exception")
            /\ UNCHANGED afterCopy
       ELSE /\ fs' = CopyStructure(fs, runNo)
            /\ afterCopy' = StagingTree(fs')
            /\ pc' = "eslint"
            /\ UNCHANGED outcome
    /\ UNCHANGED <<runNo, env, convResult, invocations, emittedTree, prevOut, prevEnv, stats, ciVars>>

\* line 363, lines 303-334
UpdateOutputEslintConfig ==
    /\ pc = "eslint"
    /\ LET cfg == Out(N("eslint.config", "js"))
       IN  fs' = IF Exists(fs, cfg)
                 THEN WriteFile(fs, cfg, RewriteIgnores(fs[cfg].c), runNo)
                 ELSE fs
    /\ pc' = "tsconfig"
    /\ UNCHANGED <<runNo, env, outcome, convResult, invocations, afterCopy, emittedTree,
                   prevOut, prevEnv, stats, ciVars>>

\* line 365, lines 38-75
CreateTempTsConfig ==
    /\ pc = "tsconfig"
    /\ fs' = WriteFile(fs, TsconfigPath, <<"jsx:preserve", "outDir:output/js">>, runNo)
    /\ pc' = "compile1"
    /\ UNCHANGED <<runNo, env, outcome, convResult, invocations, afterCopy, emittedTree,
                   prevOut, prevEnv, stats, ciVars>>

\* `npx tsc -p "${this.tsconfigPath}" ...`: the configuration the compiler reads
\* and whether --noImplicitAny false is on the command line
Invocation(f, ok, emit, permissive) ==
    [ok |-> ok, emitted |-> emit, config |-> f[TsconfigPath].c, permissive |-> permissive]

\* (a variant that gives up when the first invocation leaves no output)
CompileFirstGivingUp ==
    /\ pc = "compile1"
    /\ fs' = Emit(fs, env.emit1, runNo)
    /\ invocations' = <<Invocation(fs, env.ok1, env.emit1, FALSE)>>
    /\ IF env.ok1 \/ OutputExists(fs')
       THEN convResult' = TRUE /\ pc' = "classify" /\ UNCHANGED outcome
       ELSE convResult' = FALSE /\ End("compile")
    /\ UNCHANGED <<runNo, env, afterCopy, emittedTree, prevOut, prevEnv, stats, ciVars>>

\* convertTypeScriptFiles, first invocation: lines 79-88
CompileFirst ==
    /\ pc = "compile1"
    /\ fs' = Emit(fs, env.emit1, runNo)
    /\ invocations' = <<Invocation(fs, env.ok1, env.emit1, FALSE)>>
    /\ IF env.ok1 \/ OutputExists(fs')
       THEN convResult' = TRUE /\ pc' = "classify" /\ UNCHANGED outcome
       ELSE convResult' = FALSE /\ pc' = "compile2" /\ UNCHANGED outcome
    /\ UNCHANGED <<runNo, env, afterCopy, emittedTree, prevOut, prevEnv, stats, ciVars>>

\* convertTypeScriptFiles, the retry: lines 90-109; line 369-372
CompileRetry ==
    /\ pc = "compile2"
    /\ fs' = Emit(fs, env.emit2, runNo)
    /\ invocations' = Append(invocations, Invocation(fs, env.ok2, env.emit2, TRUE))
    /\ IF env.ok2 \/ OutputExists(fs')
       THEN convResult' = TRUE /\ pc' = "classify" /\ UNCHANGED outcome
       ELSE convResult' = FALSE /\ End("compile")
    /\ UNCHANGED <<runNo, env, afterCopy, emittedTree, prevOut, prevEnv, stats, ciVars>>

\* file.replace(/\.js$/, '.jsx')
JsxName(p) == Parent(p) \o <<N(Base(Last(p)), "jsx")>>

\* file.endsWith('.js') && original.match(...)
Reclassified(f, p) == Ext(Last(p)) = "js" /\ LooksLikeMarkup(f[p].c)

\* processJavaScriptFiles, lines 114-129: an error on one file (fail) is
\* caught inside the loop (lines 125-127), and the file stays as it is
Classify(f, fail) ==
    LET moved == {p \in JsFiles(f, JsOutputDir) : Reclassified(f, p) /\ p # fail}
        landed == {JsxName(p) : p \in moved}
    IN  [q \in (DOMAIN f \ moved) \cup landed |->
            IF q \in landed THEN f[CHOOSE p \in moved : JsxName(p) = q] ELSE f[q]]

\* (a variant in which an error on one file ends the pass and the run)
ProcessJavaScriptFilesAborting ==
    /\ pc = "classify"
    /\ emittedTree' = TreeAt(fs, JsOutputDir)
    /\ IF env.procFail \in DOMAIN fs
       THEN fs' = fs /\ End("exception")
       ELSE fs' = Classify(fs, NoPath) /\ pc' = "refs" /\ UNCHANGED outcome
    /\ UNCHANGED <<runNo, env, convResult, invocations, afterCopy, prevOut, prevEnv, stats,
                   ciVars>>

ProcessJavaScriptFiles ==
    /\ pc = "classify"
    /\ emittedTree' = TreeAt(fs, JsOutputDir)
    /\ fs' = Classify(fs, env.procFail)
    /\ pc' = "refs"
    /\ UNCHANGED <<runNo, env, outcome, convResult, invocations, afterCopy, prevOut, prevEnv, stats, ciVars>>

\* updateFileReferences, lines 131-148: an error on one entry file (fail) is
\* caught inside the loop (lines 143-145), and the file stays as it is
UpdateRefs(f, r, fail) ==
    [q \in DOMAIN f |->
        IF q \in EntryFiles /\ q # fail
        THEN [dir |-> FALSE, c |-> ReplaceTsxRefs(f[q].c), run |-> r]
        ELSE f[q]]

UpdateFileReferences ==
    /\ pc = "refs"
    /\ fs' = UpdateRefs(fs, runNo, env.refsFail)
    /\ pc' = "replace"
    /\ UNCHANGED <<runNo, env, outcome, convResult, invocations, afterCopy, emittedTree,
                   prevOut, prevEnv, stats, ciVars>>

\* copyDirectory(source, target), lines 285-301
CopyDirectory(f, source, target, r) ==
    LET f1 == EnsureDirectory(f, target, r)
        below == {p \in DOMAIN f : Inside(source, p)}
        targets == {Rebase(source, target, p) : p \in below}
    IN  [q \in DOMAIN f1 \cup targets |->
            IF q \in targets /\ ~(q \in DOMAIN f1 /\ f1[q].dir)
            THEN LET p == Rebase(target, source, q)
                 IN  [dir |-> f[p].dir, c |-> f[p].c, run |-> r]
            ELSE f1[q]]

\* lines 381-385
ReplaceResourcesJs ==
    /\ pc = "replace"
    /\ fs' = CopyDirectory(RmRf(fs, OutputResourcesJs), JsOutputDir, OutputResourcesJs, runNo)
    /\ pc' = "vite"
    /\ UNCHANGED <<runNo, env, outcome, convResult, invocations, afterCopy, emittedTree,
                   prevOut, prevEnv, stats, ciVars>>

\* lines 389-422
ConvertViteConfig ==
    /\ pc = "vite"
    /\ LET ts == Out(N("vite.config", "ts"))
           js == Out(N("vite.config", "js"))
       IN  fs' = IF Exists(fs, ts)
                 THEN RmRf(WriteFile(fs, js, ViteRewrite(fs[ts].c), runNo), ts)
                 ELSE fs
    /\ pc' = "blade"
    /\ UNCHANGED <<runNo, env, outcome, convResult, invocations, afterCopy, emittedTree,
                   prevOut, prevEnv, stats, ciVars>>

\* lines 425-436
UpdateBladeTemplate ==
    /\ pc = "blade"
    /\ LET blade == OutputDir \o Views \o <<N("app.blade", "php")>>
       IN  fs' = IF Exists(fs, blade)
                 THEN WriteFile(fs, blade, BladeRewrite(fs[blade].c), runNo)
                 ELSE fs
    /\ pc' = "rmTs"
    /\ UNCHANGED <<runNo, env, outcome, convResult, invocations, afterCopy, emittedTree,
                   prevOut, prevEnv, stats, ciVars>>

\* lines 439-453
RemoveTypeScriptLeftovers ==
    /\ pc = "rmTs"
    /\ fs' = RmRf(RmRf(RmRf(fs, Out(N("tsconfig", "json"))), Out(N("tsconfig.node", "json"))),
                  OutputResourcesJs \o <<D("types")>>)
    /\ pc' = "manifests"
    /\ UNCHANGED <<runNo, env, outcome, convResult, invocations, afterCopy, emittedTree,
                   prevOut, prevEnv, stats, ciVars>>

\* lines 456-545
UpdateManifests ==
    /\ pc = "manifests"
    /\ LET package == Out(N("package", "json"))
           composer == Out(N("composer", "json"))
           components == Out(N("components", "json"))
           f1 == IF Exists(fs, package)
                 THEN WriteFile(fs, package, PackageRewrite(fs[package].c), runNo)
                 ELSE fs
           f2 == IF Exists(f1, composer)
                 THEN WriteFile(f1, composer, ComposerRewrite(f1[composer].c), runNo)
                 ELSE f1
           f3 == IF Exists(f2, components)
                 THEN WriteFile(f2, components, ComponentsRewrite(f2[components].c), runNo)
                 ELSE f2
       IN  fs' = IF Exists(f3, Out(N("README", "md")))
                 THEN WriteFile(f3, Out(N("README", "md")), TemplateReadme, runNo)
                 ELSE f3
    /\ pc' = "rmTemp"
    /\ UNCHANGED <<runNo, env, outcome, convResult, invocations, afterCopy, emittedTree,
                   prevOut, prevEnv, stats, ciVars>>

\* lines 548-562
RemoveTemporaryFiles ==
    /\ pc = "rmTemp"
    /\ fs' = RmRf(RmRf(fs, OutputDir \o TsconfigPath), JsOutputDir)
    /\ pc' = "cleanup"
    /\ UNCHANGED <<runNo, env, outcome, convResult, invocations, afterCopy, emittedTree,
                   prevOut, prevEnv, stats, ciVars>>

\* lines 565-566 and 213-217 (generateStats only prints)
Cleanup ==
    /\ pc = "cleanup"
    /\ stats' = Stats(fs)
    /\ fs' = RmRf(fs, TsconfigPath)
    /\ End("success")
    /\ UNCHANGED <<runNo, env, convResult, invocations, afterCopy, emittedTree,
                   prevOut, prevEnv, ciVars>>

Stage ==
    \/ CheckDependencies
    \/ CheckSourceDir
    \/ CleanOutput
    \/ CopyProjectStructure
    \/ UpdateOutputEslintConfig
    \/ CreateTempTsConfig
    \/ CompileFirst
    \/ CompileRetry
    \/ ProcessJavaScriptFiles
    \/ UpdateFileReferences
    \/ ReplaceResourcesJs
    \/ ConvertViteConfig
    \/ UpdateBladeTemplate
    \/ RemoveTypeScriptLeftovers
    \/ UpdateManifests
    \/ RemoveTemporaryFiles
    \/ Cleanup

\* Nothing of the workflow or the self-test has happened.
Jobs == {"sync-upstream", "convert-jsx", "deploy-template", "notify-completion"}
MaxWorkflowRuns == 2
MaxRevisions == 2
RunIds == 1..MaxWorkflowRuns

\* No run has been triggered; main of the development repository is at
\* revision 0 and the template repository has no deployment.
NoFleet ==
    [main |-> 0, started |-> 0,
     run |-> [r \in RunIds |-> [event |-> "none", phase |-> "none", built |-> 0, base |-> 0]],
     repo |-> <<>>]

NoWorkflow ==
    /\ event = "none"
    /\ job = [j \in Jobs |-> "pending"]
    /\ step = "none"
    /\ outputs = [has_changes |-> "", conversion_success |-> ""]
    /\ artifact = [uploaded |-> FALSE, tree |-> NoTree]
    /\ template = [tree |-> NoTree, pushes |-> 0]
    /\ tpc = "none"
    /\ checks = [prerequisites |-> FALSE, structure |-> FALSE,
                 conversion |-> FALSE, components |-> FALSE,
                 commands |-> FALSE]
    /\ exitCode = -1
    /\ fleet = NoFleet

(***************************************************************************)
(* Spec: the script is run up to MaxRuns times on one project; the outside *)
(* world may differ from run to run.                                       *)
(***************************************************************************)
Init ==
    /\ fs \in {ProjectRoot(F) : F \in Projects}
    /\ pc = "idle"
    /\ runNo = 0
    /\ env = Calm
    /\ outcome = "none"
    /\ convResult = FALSE
    /\ invocations = <<>>
    /\ afterCopy = NoTree
    /\ emittedTree = NoTree
    /\ prevOut = NoTree
    /\ prevEnv = Calm
    /\ stats = NoStats
    /\ driver = "local"
    /\ NoWorkflow

StartRun ==
    /\ pc \in {"idle", "ended"}
    /\ runNo < MaxRuns
    /\ env' \in Worlds(fs)
    /\ Launch
    /\ UNCHANGED <<fs, prevOut, prevEnv, ciVars>>

Next == StartRun \/ Stage

vars == <<pipeVars, ciVars>>

Spec == Init /\ [][Next]_vars

(***************************************************************************)
(* SpecRerun: the script is run twice in a row on an unchanged project,    *)
(* in an unchanged outside world (a deterministic compiler).               *)
(***************************************************************************)
StartFirst ==
    /\ pc = "idle"
    /\ env' \in Worlds(fs)
    /\ Launch
    /\ UNCHANGED <<fs, prevOut, prevEnv, ciVars>>

StartAgain ==
    /\ pc = "ended"
    /\ runNo = 1
    /\ env' = env
    /\ prevEnv' = env
    /\ prevOut' = StagingTree(fs)
    /\ Launch
    /\ UNCHANGED <<fs, ciVars>>

NextRerun == StartFirst \/ StartAgain \/ Stage

SpecRerun == Init /\ [][NextRerun]_vars

(***************************************************************************)
(* SpecConfigs: one run on a project whose configuration files and entry   *)
(* files are drawn from sets of texts.                                     *)
(***************************************************************************)
IgnoresArray(list) == <<"ignores:", " ", "[">> \o list \o <<"]">>
Comma == <<",", " ">>

EslintTexts ==
    { EslintConfig,
      \* two configuration objects, each with an ignores array
      <<"export default [{">> \o IgnoresArray(Sq("vendor") \o Comma \o Sq("output"))
        \o <<"}, {">> \o IgnoresArray(Sq("output/**") \o Comma \o Sq("node_modules"))
        \o <<"}];">>,
      \* a glob with a brace list
      <<"export default [{">>
        \o IgnoresArray(<<"'", "**/*.{js", ",", "ts}", "'">> \o Comma \o Sq("output"))
        \o <<"}];">>,
      \* one entry per line, double quotes, trailing comma
      <<"export default [{", "ignores:", "[", "\n">> \o Dq("output/**") \o <<",", "\n">>
        \o Dq("vendor") \o <<",", "\n">> \o Dq("output") \o <<",", "\n", "]", "}];">>,
      <<"export default [{">> \o IgnoresArray(Sq("output")) \o <<"}];">>,
      <<"export default [{">>
        \o IgnoresArray(Sq("b") \o Comma \o Sq("output/") \o Comma \o Sq("a"))
        \o <<"}];">>,
      <<"export default [];">> }

PackageTexts ==
    { PackageJson,
      [PackageJson EXCEPT ![1].hasDev = FALSE, ![1].dev = {}],
      [PackageJson EXCEPT ![1].dev = {"vite"}],
      [PackageJson EXCEPT ![1].dev = TypeDevDeps \cup {"vite"}],
      [PackageJson EXCEPT ![1].name = <<>>, ![1].description = <<>>],
      \* texts that hold the replaced word twice
      [PackageJson EXCEPT ![1].name = <<"react-starter-kit", "/", "react-starter-kit">>],
      [PackageJson EXCEPT ![1].description = <<"TypeScript", " kit for ", "TypeScript">>],
      \* a manifest that is converted already
      [PackageJson EXCEPT ![1].name = <<"vendor/", "react-jsx-starter-kit">>,
                          ![1].description = <<"A ", "JavaScript/JSX", " starter">>,
                          ![1].dev = {"vite"}, ![1].indent = 2] }

ViteTexts ==
    { ViteConfigTs,
      <<NodePathImport, NodeUrlImport, "__dirname", "\n", "resources/js/ssr.tsx">>,
      <<"import { type Plugin } from 'vite';", "__dirname", "__dirname">>,
      <<NodePathImport, "resources/js/app.jsx">>,
      <<"import { resolve, join } from \"node:path\"", NodePathImport, "__dirname">>,
      <<"import { fileURLToPath } from 'url';", "__dirname">>,
      <<"import path from 'node:path';", "__dirname", "resources/js/app.tsx">>,
      <<"import { resolve } from 'path';", "__dirname">>,
      <<NodePathImport, "// fileURLToPath", "__dirname">> }

BladeTexts == { AppBlade, <<"<html>", BladeNew>>, <<BladeOld, "<body>", BladeOld>> }

ComposerTexts ==
    { <<"name:laravel/react-starter-kit">>, <<"require:php">>,
      <<"name:aliziodev/react-jsx-starter-kit", "require:php">> }

ComponentsTexts == { <<"tsx:true">>, <<"style:default">>, <<"tsx:false">> }

EntryTexts ==
    { AppTsx,
      DotTsx \o DotTsx,
      <<".", "t">> \o DotTsx \o <<"s", "x">>,
      <<".">> \o DotTsx \o <<":T">> }

Variant(p, c) == Put(ProjectRoot({"src"}), p, [dir |-> FALSE, c |-> c, run |-> 0])

ConfigProjects ==
    {Variant(<<N("eslint.config", "js")>>, c) : c \in EslintTexts}
      \cup {Variant(<<N("package", "json")>>, c) : c \in PackageTexts}
      \cup {Variant(<<N("vite.config", "ts")>>, c) : c \in ViteTexts}
      \cup {Variant(Views \o <<N("app.blade", "php")>>, c) : c \in BladeTexts}
      \cup {Variant(<<N("composer", "json")>>, c) : c \in ComposerTexts}
      \cup {Variant(<<N("components", "json")>>, c) : c \in ComponentsTexts}
      \cup {Variant(SourceDir \o <<N("app", "tsx")>>, c) : c \in EntryTexts}
      \cup {ProjectRoot(F) : F \in {{"src", "meta"}, {"src", "ownflows"}, {"src", "template"}}}

InitConfigs ==
    /\ fs \in ConfigProjects
    /\ pc = "idle"
    /\ runNo = 0
    /\ env = Calm
    /\ outcome = "none"
    /\ convResult = FALSE
    /\ invocations = <<>>
    /\ afterCopy = NoTree
    /\ emittedTree = NoTree
    /\ prevOut = NoTree
    /\ prevEnv = Calm
    /\ stats = NoStats
    /\ driver = "local"
    /\ NoWorkflow

NextConfigs == StartFirst \/ Stage

SpecConfigs == InitConfigs /\ [][NextConfigs]_vars

(***************************************************************************)
(* The workflow "Sync Upstream and Deploy JSX Template"                    *)
(***************************************************************************)
Finished == {"success", "failure", "skipped"}
Started == {"running", "success", "failure"}

ScriptPath == <<D("scripts"), N("run-conversion", "js")>>

\* A job with `needs` and an `if` without a status function runs only when
\* every needed job succeeded and the condition holds; otherwise it is skipped.

\* convert-jsx: needs sync-upstream; if has_changes == 'true' || event == 'push'
ConvertCondition ==
    /\ job["sync-upstream"] = "success"
    /\ outputs.has_changes = "true" \/ event = "push"

\* (a variant gated on the output alone, as `if: always() && ...` would be)
DeployConditionUngated == outputs.conversion_success = "true"

\* deploy-template: needs [sync-upstream, convert-jsx];
\* if conversion_success == 'true'
DeployCondition ==
    /\ job["sync-upstream"] = "success"
    /\ job["convert-jsx"] = "success"
    /\ outputs.conversion_success = "true"

\* notify-completion: needs all three; if always()
NotifyCondition == TRUE

\* job sync-upstream, lines 32-105: the fetch may fail, the merge may conflict
SyncUpstream ==
    /\ driver = "workflow"
    /\ job["sync-upstream"] = "pending"
    /\ \E r \in {[result |-> "success", has_changes |-> "true"],
                 [result |-> "success", has_changes |-> "false"],
                 [result |-> "failure", has_changes |-> "true"],
                 [result |-> "failure", has_changes |-> ""]} :
          /\ job' = [job EXCEPT !["sync-upstream"] = r.result]
          /\ outputs' = [outputs EXCEPT !.has_changes = r.has_changes]
    /\ UNCHANGED <<fleet, pipeVars, driver, event, step, artifact, template, tpc, checks, exitCode>>

\* convert-jsx is started or skipped once sync-upstream has finished
ConvertGate ==
    /\ driver = "workflow"
    /\ job["convert-jsx"] = "pending"
    /\ job["sync-upstream"] \in Finished
    /\ IF ConvertCondition
       THEN job' = [job EXCEPT !["convert-jsx"] = "running"] /\ step' = "install"
       ELSE job' = [job EXCEPT !["convert-jsx"] = "skipped"] /\ UNCHANGED step
    /\ UNCHANGED <<fleet, pipeVars, driver, event, outputs, artifact, template, tpc, checks, exitCode>>

\* checkout, setup-node, npm install && npm ci: lines 115-133
ConvertInstall ==
    /\ job["convert-jsx"] = "running"
    /\ step = "install"
    /\ \E ok \in BOOLEAN :
          IF ok THEN step' = "convert" /\ UNCHANGED job
          ELSE job' = [job EXCEPT !["convert-jsx"] = "failure"] /\ step' = "none"
    /\ UNCHANGED <<fleet, pipeVars, driver, event, outputs, artifact, template, tpc, checks, exitCode>>

\* step convert, lines 137-147: the script is started if it exists
ConvertRun ==
    /\ job["convert-jsx"] = "running"
    /\ step = "convert"
    /\ IF Exists(fs, ScriptPath)
       THEN /\ env' \in Worlds(fs)
            /\ Launch
            /\ step' = "converting"
            /\ UNCHANGED job
       ELSE /\ job' = [job EXCEPT !["convert-jsx"] = "failure"]
            /\ step' = "none"
            /\ UNCHANGED <<pc, runNo, env, outcome, convResult, invocations,
                           afterCopy, emittedTree, stats>>
    /\ UNCHANGED <<fleet, fs, prevOut, prevEnv, driver, event, outputs, artifact, template,
                   tpc, checks, exitCode>>

\* lines 147-150: node has exited; run() never sets a failing exit code
ConvertDone ==
    /\ job["convert-jsx"] = "running"
    /\ step = "converting"
    /\ pc = "ended"
    /\ outputs' = [outputs EXCEPT !.conversion_success = "true"]
    /\ step' = "verify"
    /\ UNCHANGED <<fleet, pipeVars, driver, event, job, artifact, template, tpc, checks, exitCode>>

RequiredOutputFiles ==
    { OutputResourcesJs \o <<N("app", "jsx")>>,
      OutputResourcesJs \o <<N("ssr", "jsx")>>,
      Out(N("vite.config", "js")),
      OutputDir \o Views \o <<N("app.blade", "php")>>,
      Out(N("package", "json")) }

\* (a variant that forgets the bundler config)
VerifyOutputWithoutVite(f) ==
    IsDir(f, OutputDir)
      /\ \A p \in RequiredOutputFiles \ {Out(N("vite.config", "js"))} : IsFile(f, p)

\* step "Verify conversion output", lines 157-176: [ -d output ] and [ -f file ]
VerifyOutput(f) == IsDir(f, OutputDir) /\ \A p \in RequiredOutputFiles : IsFile(f, p)

VerifyStep ==
    /\ job["convert-jsx"] = "running"
    /\ step = "verify"
    /\ IF VerifyOutput(fs)
       THEN step' = "upload" /\ UNCHANGED job
       ELSE job' = [job EXCEPT !["convert-jsx"] = "failure"] /\ step' = "none"
    /\ UNCHANGED <<fleet, pipeVars, driver, event, outputs, artifact, template, tpc, checks, exitCode>>

\* step "Upload conversion artifacts", lines 197-203
UploadStep ==
    /\ job["convert-jsx"] = "running"
    /\ step = "upload"
    /\ artifact' = [uploaded |-> TRUE, tree |-> StagingTree(fs)]
    /\ job' = [job EXCEPT !["convert-jsx"] = "success"]
    /\ step' = "none"
    /\ UNCHANGED <<fleet, pipeVars, driver, event, outputs, template, tpc, checks, exitCode>>

\* deploy-template is started or skipped once the jobs it needs have finished
DeployGate ==
    /\ driver = "workflow"
    /\ job["deploy-template"] = "pending"
    /\ job["sync-upstream"] \in Finished
    /\ job["convert-jsx"] \in Finished
    /\ IF DeployCondition
       THEN job' = [job EXCEPT !["deploy-template"] = "running"] /\ step' = "clone"
       ELSE job' = [job EXCEPT !["deploy-template"] = "skipped"] /\ UNCHANGED step
    /\ UNCHANGED <<fleet, pipeVars, driver, event, outputs, artifact, template, tpc, checks, exitCode>>

\* checkout, download, clone: lines 211-258; TEMPLATE_REPO_TOKEN may be missing
DeployClone ==
    /\ job["deploy-template"] = "running"
    /\ step = "clone"
    /\ \E token \in BOOLEAN :
          IF token THEN step' = "deploy" /\ UNCHANGED job
          ELSE job' = [job EXCEPT !["deploy-template"] = "failure"] /\ step' = "none"
    /\ UNCHANGED <<fleet, pipeVars, driver, event, outputs, artifact, template, tpc, checks, exitCode>>

\* step "Deploy to template repository", lines 261-302: nothing is committed
\* when the template already holds the artifact
DeployPush ==
    /\ job["deploy-template"] = "running"
    /\ step = "deploy"
    /\ template' = IF template.tree = artifact.tree THEN template
                   ELSE [tree |-> artifact.tree, pushes |-> template.pushes + 1]
    /\ job' = [job EXCEPT !["deploy-template"] = "success"]
    /\ step' = "none"
    /\ UNCHANGED <<fleet, pipeVars, driver, event, outputs, artifact, tpc, checks, exitCode>>

\* notify-completion, lines 324-358
NotifyCompletion ==
    /\ driver = "workflow"
    /\ job["notify-completion"] = "pending"
    /\ \A j \in Jobs \ {"notify-completion"} : job[j] \in Finished
    /\ job' = [job EXCEPT !["notify-completion"] =
                  IF NotifyCondition THEN "success" ELSE "skipped"]
    /\ UNCHANGED <<fleet, pipeVars, driver, event, step, outputs, artifact, template, tpc,
                   checks, exitCode>>

Workflow ==
    \/ SyncUpstream
    \/ ConvertGate
    \/ ConvertInstall
    \/ ConvertRun
    \/ ConvertDone
    \/ VerifyStep
    \/ UploadStep
    \/ DeployGate
    \/ DeployClone
    \/ DeployPush
    \/ NotifyCompletion

(***************************************************************************)
(* WorkflowTester (the self-test)                                          *)
(***************************************************************************)
RequiredFiles ==
    { <<N("package", "json")>>, SourceDir \o <<N("app", "tsx")>>,
      SourceDir \o <<N("ssr", "tsx")>>, <<N("vite.config", "ts")>>,
      Views \o <<N("app.blade", "php")>>, ScriptPath }
RequiredDirNames == {D("components"), D("pages"), D("layouts"), D("hooks")}

\* checkProjectStructure, lines 676-718
CheckProjectStructure(f) ==
    /\ \A p \in RequiredFiles : Exists(f, p)
    /\ \A d \in RequiredDirNames : IsDir(f, SourceDir \o <<d>>)

\* verifyConversionOutput, lines 743-841: the value returned is allValid
VerifyConversionOutput(f) ==
    /\ \A p \in RequiredOutputFiles : Exists(f, p)
    /\ \A d \in RequiredDirNames : IsDir(f, OutputResourcesJs \o <<d>>)

\* lines 922-931: checkPrerequisites (tools on the machine), checkProjectStructure
TestPrerequisites ==
    /\ driver = "selftest"
    /\ tpc = "prerequisites"
    /\ \E ok \in BOOLEAN : checks' = [checks EXCEPT !.prerequisites = ok]
    /\ tpc' = "structure"
    /\ UNCHANGED <<fleet, pipeVars, driver, event, job, step, outputs, artifact, template, exitCode>>

TestStructure ==
    /\ tpc = "structure"
    /\ checks' = [checks EXCEPT !.structure = CheckProjectStructure(fs)]
    /\ tpc' = "conversion"
    /\ UNCHANGED <<fleet, pipeVars, driver, event, job, step, outputs, artifact, template, exitCode>>

\* testConversion, lines 720-733: the output directory is removed, the script run
TestConversionRun ==
    /\ tpc = "conversion"
    /\ fs' = RmRf(fs, OutputDir)
    /\ env' \in Worlds(fs)
    /\ Launch
    /\ tpc' = "converting"
    /\ UNCHANGED <<fleet, prevOut, prevEnv, driver, event, job, step, outputs, artifact,
                   template, checks, exitCode>>

\* testConversion, lines 735-740: the script has exited with code 0
TestConversionDone ==
    /\ tpc = "converting"
    /\ pc = "ended"
    /\ checks' = [checks EXCEPT !.conversion = VerifyConversionOutput(fs)]
    /\ tpc' = "components"
    /\ UNCHANGED <<fleet, pipeVars, driver, event, job, step, outputs, artifact, template, exitCode>>

\* testWorkflowComponents, lines 866-889: `git status --porcelain`, `git remote -v`
\* and `npm list --depth=0` are run by runCommand, which reports whether each
\* succeeded (commands); the results are not used and the test returns true.
TestWorkflowComponents ==
    /\ tpc = "components"
    /\ \E ok \in BOOLEAN : checks' = [checks EXCEPT !.components = TRUE, !.commands = ok]
    /\ tpc' = "report"
    /\ UNCHANGED <<fleet, pipeVars, driver, event, job, step, outputs, artifact, template, exitCode>>

ReportPath == <<N("workflow-test-report", "json")>>

\* generateReport, lines 891-913
GenerateReport ==
    /\ tpc = "report"
    /\ fs' = WriteFile(fs, ReportPath,
                       <<"status:completed", "prerequisites:passed", "structure:passed",
                         "conversion:passed", "components:passed">>, runNo)
    /\ tpc' = "exit"
    /\ UNCHANGED <<fleet, pc, runNo, env, outcome, convResult, invocations, afterCopy,
                   emittedTree, prevOut, prevEnv, stats, driver, event, job, step, outputs,
                   artifact, template, checks, exitCode>>

\* lines 949-955
TestExit ==
    /\ tpc = "exit"
    /\ exitCode' = IF /\ checks.prerequisites
                      /\ checks.structure
                      /\ checks.conversion
                      /\ checks.components
                   THEN 0 ELSE 1
    /\ tpc' = "exited"
    /\ UNCHANGED <<fleet, pipeVars, driver, event, job, step, outputs, artifact, template, checks>>

SelfTest ==
    \/ TestPrerequisites
    \/ TestStructure
    \/ TestConversionRun
    \/ TestConversionDone
    \/ TestWorkflowComponents
    \/ GenerateReport
    \/ TestExit

(***************************************************************************)
(* SpecFleet: the runs of the workflow that its triggers start.  The       *)
(* workflow has no concurrency group, so the jobs of one run wait only for *)
(* the jobs they need in the same run.  Runs are numbered in the order in  *)
(* which they start; each job runs on a runner of its own.                 *)
(***************************************************************************)
\* on: workflow_dispatch, schedule, push to main (lines 3-24); a push moves main
TriggerRun(ev) ==
    /\ driver = "fleet"
    /\ fleet.started < MaxWorkflowRuns
    /\ ev = "push" => fleet.main < MaxRevisions
    /\ fleet' = [fleet EXCEPT
                    !.started = @ + 1,
                    !.main = IF ev = "push" THEN @ + 1 ELSE @,
                    !.run[fleet.started + 1] = [@ EXCEPT !.event = ev, !.phase = "queued"]]
    /\ UNCHANGED <<pipeVars, driver, event, job, step, outputs, artifact, template, tpc,
                   checks, exitCode>>

\* sync-upstream, lines 32-105: with changes the merge is pushed to main
\* (line 97); convert-jsx is skipped without changes unless the event is a
\* push (line 110)
SyncJob(r) ==
    /\ fleet.run[r].phase = "queued"
    /\ \E changes \in BOOLEAN :
          /\ changes => fleet.main < MaxRevisions
          /\ fleet' = [fleet EXCEPT
                          !.main = IF changes THEN @ + 1 ELSE @,
                          !.run[r].phase = IF changes \/ fleet.run[r].event = "push"
                                           THEN "synced" ELSE "skipped"]
    /\ UNCHANGED <<pipeVars, driver, event, job, step, outputs, artifact, template, tpc,
                   checks, exitCode>>

\* convert-jsx, lines 115-120: checkout with ref: main, whatever main is now
ConvertCheckout(r) ==
    /\ fleet.run[r].phase = "synced"
    /\ fleet' = [fleet EXCEPT !.run[r].phase = "converting", !.run[r].built = fleet.main]
    /\ UNCHANGED <<pipeVars, driver, event, job, step, outputs, artifact, template, tpc,
                   checks, exitCode>>

\* convert-jsx, lines 135-203: conversion, verification, upload of output/;
\* deploy-template runs if conversion_success is 'true' (line 208)
ConvertUpload(r) ==
    /\ fleet.run[r].phase = "converting"
    /\ \E ok \in BOOLEAN :
          fleet' = [fleet EXCEPT !.run[r].phase = IF ok THEN "converted" ELSE "failed"]
    /\ UNCHANGED <<pipeVars, driver, event, job, step, outputs, artifact, template, tpc,
                   checks, exitCode>>

\* deploy-template, lines 245-258: git clone of the template repository
TemplateClone(r) ==
    /\ fleet.run[r].phase = "converted"
    /\ fleet' = [fleet EXCEPT !.run[r].phase = "cloned", !.run[r].base = Len(fleet.repo)]
    /\ UNCHANGED <<pipeVars, driver, event, job, step, outputs, artifact, template, tpc,
                   checks, exitCode>>

\* deploy-template, lines 260-302: the clone's files are replaced by the
\* artifact; nothing is pushed if that changes nothing (lines 287-290);
\* `git push origin main` (line 300) is refused if the template has moved
\* since the clone
TemplatePush(r) ==
    /\ fleet.run[r].phase = "cloned"
    /\ LET me == fleet.run[r]
           same == me.base > 0 /\ fleet.repo[me.base].rev = me.built
       IN  fleet' =
             IF same THEN [fleet EXCEPT !.run[r].phase = "deployed"]
             ELSE IF me.base = Len(fleet.repo)
             THEN [fleet EXCEPT !.run[r].phase = "deployed",
                                !.repo = Append(@, [by |-> r, rev |-> me.built])]
             ELSE [fleet EXCEPT !.run[r].phase = "rejected"]
    /\ UNCHANGED <<pipeVars, driver, event, job, step, outputs, artifact, template, tpc,
                   checks, exitCode>>

InitFleet ==
    /\ fs = ProjectRoot({"src"})
    /\ pc = "idle"
    /\ runNo = 0
    /\ env = Calm
    /\ outcome = "none"
    /\ convResult = FALSE
    /\ invocations = <<>>
    /\ afterCopy = NoTree
    /\ emittedTree = NoTree
    /\ prevOut = NoTree
    /\ prevEnv = Calm
    /\ stats = NoStats
    /\ driver = "fleet"
    /\ NoWorkflow

NextFleet ==
    \/ \E ev \in {"schedule", "push", "workflow_dispatch"} : TriggerRun(ev)
    \/ \E r \in RunIds : SyncJob(r)
    \/ \E r \in RunIds : ConvertCheckout(r)
    \/ \E r \in RunIds : ConvertUpload(r)
    \/ \E r \in RunIds : TemplateClone(r)
    \/ \E r \in RunIds : TemplatePush(r)

SpecFleet == InitFleet /\ [][NextFleet]_vars

(***************************************************************************)
(* SpecCI: one workflow run on a fresh checkout of the project, or one run *)
(* of the self-test.                                                       *)
(***************************************************************************)
ProjectsCI ==
    { {"src", "dirs"}, {"src", "dirs", "meta"}, {"src", "dirs", "novite"}, {"src"},
      {"jsinputs"}, {} }

InitCI ==
    /\ fs \in {ProjectRoot(F) : F \in ProjectsCI}
    /\ pc = "idle"
    /\ runNo = 0
    /\ env = Calm
    /\ outcome = "none"
    /\ convResult = FALSE
    /\ invocations = <<>>
    /\ afterCopy = NoTree
    /\ emittedTree = NoTree
    /\ prevOut = NoTree
    /\ prevEnv = Calm
    /\ stats = NoStats
    /\ driver \in {"workflow", "selftest"}
    /\ event \in IF driver = "workflow" THEN {"schedule", "push", "workflow_dispatch"}
                 ELSE {"none"}
    /\ job = [j \in Jobs |-> "pending"]
    /\ step = "none"
    /\ outputs = [has_changes |-> "", conversion_success |-> ""]
    /\ artifact = [uploaded |-> FALSE, tree |-> NoTree]
    /\ template = [tree |-> NoTree, pushes |-> 0]
    /\ tpc = IF driver = "selftest" THEN "prerequisites" ELSE "none"
    /\ checks = [prerequisites |-> FALSE, structure |-> FALSE,
                 conversion |-> FALSE, components |-> FALSE,
                 commands |-> FALSE]
    /\ exitCode = -1
    /\ fleet = NoFleet

NextCI == Workflow \/ SelfTest \/ Stage

SpecCI == InitCI /\ [][NextCI]_vars

(***************************************************************************)
(* Properties                                                              *)
(***************************************************************************)
StagingFiles(f) == {p \in DOMAIN f : Inside(OutputDir, p) /\ ~f[p].dir}

\* C1: when a run ends, every file in the staging directory was produced by
\* that run
C1_StagingIsFresh ==
    pc = "ended" => \A p \in StagingFiles(fs) : fs[p].run = runNo

StagedEslint == Out(N("eslint.config", "js"))

C3_SoftSuccessIffEmitted ==
    /\ (convResult /\ ~invocations[Len(invocations)].ok) =>
            invocations[Len(invocations)].emitted # {}
    /\ (pc = "ended" /\ outcome = "compile") =>
            \A i \in 1..Len(invocations) : invocations[i].emitted = {}

\* C4: when a run has ended, however it ended, tsconfig.temp.json exists neither
\* at the project root nor in the staging tree
C4_NoTransientConfigLeft ==
    pc = "ended" => ~Exists(fs, TsconfigPath) /\ ~Exists(fs, OutputDir \o TsconfigPath)

\* C5: the staging tree after the second of two identical runs equals the
\* staging tree after the first
C5_RerunIsIdentical ==
    (pc = "ended" /\ runNo = 2) => StagingTree(fs) = prevOut

ContainsTag(c) == \E i \in 1..Len(c) : c[i] = "<"

\* C9: after the classifier pass an emitted .js file has become .jsx exactly
\* when its content matches the heuristic, every other emitted file is
\* untouched; at the end of a successful run a component with a tag is a .jsx
\* file and a component without one is a .js file
C9_ClassifiedByMarkup ==
    /\ pc = "refs" =>
          \A p \in {q \in DOMAIN emittedTree : ~emittedTree[q].dir} :
              IF Ext(Last(p)) = "js" /\ LooksLikeMarkup(emittedTree[p].c)
              THEN ~Exists(fs, p) /\ IsFile(fs, JsxName(p))
                     /\ fs[JsxName(p)].c = emittedTree[p].c
              ELSE IsFile(fs, p) /\ fs[p].c = emittedTree[p].c
    /\ (pc = "ended" /\ outcome = "success") =>
          \A p \in Compilable(fs) :
              LET name == N(Base(Last(p)), IF ContainsTag(fs[p].c) THEN "jsx" ELSE "js")
              IN  p \in invocations[Len(invocations)].emitted =>
                      IsFile(fs, Rebase(SourceDir, OutputResourcesJs, Parent(p) \o <<name>>))

\* C10: the classifier pass keeps the number of .js/.jsx files in the compiler
\* output directory, and that number is at most the number of source files
C10_ClassifierKeepsCount ==
    pc = "refs" =>
        LET before == {p \in DOMAIN emittedTree :
                          ~emittedTree[p].dir /\ Ext(Last(p)) \in {"js", "jsx"}}
        IN  /\ Cardinality(JsFiles(fs, JsOutputDir)) = Cardinality(before)
            /\ Cardinality(before) <= Cardinality(SourceFiles(fs))

EmittedEntryFiles(f) ==
    {p \in JsFiles(f, JsOutputDir) :
        Parent(p) = JsOutputDir /\ Base(Last(p)) \in {"app", "ssr"}}

\* C11: after updateFileReferences neither emitted entry file (app, ssr), whatever
\* its content and its emitted extension, contains the old extension .tsx
C11_EntryFilesHaveNoTsx ==
    pc = "replace" => \A p \in EmittedEntryFiles(fs) : ~Includes(fs[p].c, DotTsx)

\* The list texts of the ignores arrays of a configuration, in order.
RECURSIVE IgnoresLists(_, _)
IgnoresLists(c, i) ==
    IF i > Len(c) THEN <<>>
    ELSE LET m == IgnoresMatchAt(c, i)
         IN  IF m[1] = 0 THEN IgnoresLists(c, i + 1)
             ELSE <<SubSeq(c, m[1] + 1, m[2] - 1)>> \o IgnoresLists(c, m[2] + 1)

\* The entries of an array literal as the language reads them: a comma inside a
\* string literal separates nothing, white space between entries is no entry.
RECURSIVE Entries(_, _, _)
Entries(c, cur, quote) ==
    IF c = <<>> THEN (IF cur = <<>> THEN <<>> ELSE <<cur>>)
    ELSE IF quote # ""
         THEN Entries(Tail(c), Append(cur, c[1]), IF c[1] = quote THEN "" ELSE quote)
    ELSE IF c[1] \in Quotes THEN Entries(Tail(c), Append(cur, c[1]), c[1])
    ELSE IF c[1] = ","
         THEN (IF cur = <<>> THEN <<>> ELSE <<cur>>) \o Entries(Tail(c), <<>>, "")
    ELSE IF c[1] \in Whitespace THEN Entries(Tail(c), cur, "")
    ELSE Entries(Tail(c), Append(cur, c[1]), "")

\* the entry names the staging directory: 'output', or a path below it
RefersToOutput(entry) ==
    /\ Len(entry) = 3
    /\ entry[1] \in Quotes
    /\ entry[2] \in {"output"} \cup OutputSlash

\* C12: after updateOutputEslintConfig each ignores array of the staged
\* eslint.config.js holds exactly the original entries that do not refer to the
\* output directory, unchanged and in their original order
C12_IgnoresKeepOtherEntries ==
    (pc = "tsconfig" /\ StagedEslint \in DOMAIN afterCopy) =>
        LET before == IgnoresLists(afterCopy[StagedEslint].c, 1)
            after == IgnoresLists(fs[StagedEslint].c, 1)
        IN  /\ Len(after) = Len(before)
            /\ \A k \in 1..Len(before) :
                  Entries(after[k], <<>>, "")
                    = SelectSeq(Entries(before[k], <<>>, ""), LAMBDA e : ~RefersToOutput(e))

StagedPackage == Out(N("package", "json"))

\* C13: after the rewrite of the staged package.json the name
\* vendor/react-starter-kit has become vendor/react-jsx-starter-kit, and the
\* devDependencies hold none of the four type packages, whether or not they were
\* there before and whether or not there was a devDependencies object
C13_PackageRenamedAndUntyped ==
    (pc = "rmTemp" /\ Exists(fs, StagedPackage)) =>
        LET before == afterCopy[StagedPackage].c[1]
            after == fs[StagedPackage].c[1]
        IN  /\ before.name = <<"vendor/", "react-starter-kit">>
                  => after.name = <<"vendor/", "react-jsx-starter-kit">>
            /\ after.dev \cap TypeDevDeps = {}

C13_Witness ==
    /\ pc = "rmTemp"
    /\ Exists(fs, StagedPackage)
    /\ afterCopy[StagedPackage].c[1].name = <<"vendor/", "react-starter-kit">>
    /\ afterCopy[StagedPackage].c[1].dev \cap TypeDevDeps # {}
    /\ fs[StagedPackage].c[1].dev = {"vite"}

StagedVite == Out(N("vite.config", "js"))
StagedBlade == OutputDir \o Views \o <<N("app.blade", "php")>>
StagedComposer == Out(N("composer", "json"))
StagedComponents == Out(N("components", "json"))

\* C14: every rewrite is a fixed point on its own output: applied to the file
\* it has just written (lint config, entry files, bundler config, view
\* template, package.json, composer.json, components.json) it changes nothing
C14_RewritesAreFixedPoints ==
    /\ (pc = "tsconfig" /\ Exists(fs, StagedEslint)) =>
          RewriteIgnores(fs[StagedEslint].c) = fs[StagedEslint].c
    /\ pc = "replace" =>
          \A p \in EntryFiles \cap DOMAIN fs : ReplaceTsxRefs(fs[p].c) = fs[p].c
    /\ (pc = "blade" /\ Out(N("vite.config", "ts")) \in DOMAIN afterCopy) =>
          ViteRewrite(fs[StagedVite].c) = fs[StagedVite].c
    /\ (pc = "rmTs" /\ Exists(fs, StagedBlade)) =>
          BladeRewrite(fs[StagedBlade].c) = fs[StagedBlade].c
    /\ pc = "rmTemp" =>
          /\ Exists(fs, StagedPackage) =>
                PackageRewrite(fs[StagedPackage].c) = fs[StagedPackage].c
          /\ Exists(fs, StagedComposer) =>
                ComposerRewrite(fs[StagedComposer].c) = fs[StagedComposer].c
          /\ Exists(fs, StagedComponents) =>
                ComponentsRewrite(fs[StagedComponents].c) = fs[StagedComponents].c

\* C15: after the tree copy every file of the project root that has no excluded
\* directory name and no excluded file name on its path, and is not inside
\* .github/workflows, is in the staging tree at the same relative path with the
\* same content, below directories
C15_TreeCopyMirrorsFiles ==
    pc = "eslint" =>
        \A p \in DOMAIN fs :
            (/\ ~fs[p].dir
             /\ \A i \in 1..Len(p) : p[i] \notin ExcludeDirs \cup ExcludeFiles
             /\ ~Inside(Workflows, p))
            => /\ IsFile(fs, OutputDir \o p)
               /\ fs[OutputDir \o p].c = fs[p].c
               /\ \A i \in 1..(Len(p) - 1) : IsDir(fs, OutputDir \o SubSeq(p, 1, i))

StagedWorkflows == OutputDir \o Workflows
ReleaseTemplate == TemplateWorkflows \o <<N("auto-release", "yml")>>

\* C16: the staging tree never holds a workflow definition other than lint.yml,
\* tests.yml and auto-release.yml; after the tree copy lint.yml and tests.yml are
\* there exactly when the source workflows directory has them, and
\* auto-release.yml exactly when templates/workflows/auto-release.yml exists,
\* with that file's content
C16_OnlyAllowedWorkflows ==
    /\ \A p \in DOMAIN fs :
          (Inside(OutputDir, p) /\ ~fs[p].dir /\ \E i \in 1..Len(p) : p[i] = D(".github"))
            => /\ Parent(p) = StagedWorkflows
               /\ Last(p) \in {N("lint", "yml"), N("tests", "yml"), N("auto-release", "yml")}
    /\ afterCopy # NoTree =>
          /\ \A w \in {N("lint", "yml"), N("tests", "yml")} :
                /\ IsFile(fs, StagedWorkflows \o <<w>>) <=> Exists(fs, Workflows \o <<w>>)
                /\ IsFile(fs, StagedWorkflows \o <<w>>) =>
                      fs[StagedWorkflows \o <<w>>].c = fs[Workflows \o <<w>>].c
          /\ IsFile(fs, StagedWorkflows \o <<N("auto-release", "yml")>>)
                <=> Exists(fs, ReleaseTemplate)
          /\ Exists(fs, ReleaseTemplate) =>
                fs[StagedWorkflows \o <<N("auto-release", "yml")>>].c = fs[ReleaseTemplate].c

C16_Witness ==
    /\ pc = "ended"
    /\ outcome = "success"
    /\ Exists(fs, Workflows \o <<N("sync-and-deploy", "yml")>>)
    /\ IsFile(fs, StagedWorkflows \o <<N("lint", "yml")>>)
    /\ IsFile(fs, StagedWorkflows \o <<N("auto-release", "yml")>>)

\* The project root without the staging directory and the transient compiler
\* config: the source tree.
SourceTree(f) ==
    [p \in {q \in DOMAIN f : ~IsPrefix(<<D("output")>>, q) /\ q # <<N("tsconfig.temp", "json")>>}
        |-> [dir |-> f[p].dir, c |-> f[p].c]]

\* C17: no step of a run, on success or on any failure path, creates, modifies
\* or deletes a file or directory of the project root other than the staging
\* directory output and the transient compiler config
C17_SourceTreeIsReadOnly == [][SourceTree(fs') = SourceTree(fs)]_vars

C17_Witness ==
    /\ pc = "ended"
    /\ outcome = "success"
    /\ IsFile(fs, <<D("output"), D("resources"), D("js"), N("app", "jsx")>>)
    /\ IsFile(fs, <<D("resources"), D("js"), N("app", "tsx")>>)
    /\ IsFile(fs, <<N("vite.config", "ts")>>)

\* A file of the run's world could not be copied, and the run has reached the
\* tree copy.
CopyFailed ==
    /\ env.copyFail \in DOMAIN fs
    /\ outcome # "nosrc"
    /\ pc \notin {"idle", "checkDeps", "checkSrc", "clean", "copy"}

\* C18: a failure while copying a file aborts the run: the run has ended with
\* the exception, no later stage has executed (no lint rewrite, no compiler
\* configuration, no compiler invocation, no classification, no statistics),
\* and everything the run wrote is a directory of the staging tree or an
\* unchanged copy of a source file, so that no copy was made a second time
\* after the failing file.
C18_CopyFailureAbortsRun ==
    CopyFailed =>
        /\ pc = "ended"
        /\ outcome = "exception"
        /\ invocations = <<>>
        /\ afterCopy = NoTree
        /\ emittedTree = NoTree
        /\ ~stats.printed
        /\ ~IsFile(fs, OutputDir \o env.copyFail)
        /\ \A p \in DOMAIN fs :
              fs[p].run = runNo =>
                /\ IsPrefix(OutputDir, p)
                /\ ~fs[p].dir =>
                      LET q == SubSeq(p, Len(OutputDir) + 1, Len(p))
                      IN  q \in DOMAIN fs /\ fs[q].c = fs[p].c

\* C18 happens: a run ended on a failed copy with part of the tree copied.
C18_Witness ==
    /\ CopyFailed
    /\ pc = "ended"
    /\ \E p \in DOMAIN fs : ~fs[p].dir /\ fs[p].run = runNo /\ IsPrefix(OutputDir, p)

\* C19: the self-test exits with code 0 exactly when the prerequisites check,
\* the project-structure check, the conversion test and the workflow-components
\* test (its three commands) all pass, and with code 1 otherwise.
C19_ExitCodeTellsAllPassed ==
    tpc = "exited" =>
        /\ exitCode \in {0, 1}
        /\ exitCode = 0 <=> /\ checks.prerequisites
                            /\ checks.structure
                            /\ checks.conversion
                            /\ checks.commands

\* The .js/.jsx files the compiler left in its output directory.
EmittedFiles ==
    {p \in DOMAIN emittedTree : ~emittedTree[p].dir /\ Ext(Last(p)) \in {"js", "jsx"}}

\* C20: the statistics printed at the end of a successful run give the number
\* of .ts/.tsx files under the source directory, the number of .js/.jsx files
\* the conversion emitted, and two flags that are 1 exactly when the converted
\* bundler configuration and the converted view template are in the staging tree.
C20_StatsReportTheRun ==
    (pc = "ended" /\ outcome = "success") =>
        /\ stats.printed
        /\ stats.sources = Cardinality(SourceFiles(fs))
        /\ stats.outputs = Cardinality(EmittedFiles)
        /\ stats.config \in {0, 1}
        /\ stats.views \in {0, 1}
        /\ stats.config = 1 <=> Exists(fs, StagedVite)
        /\ stats.views = 1 <=> Exists(fs, StagedBlade)

RECURSIVE Count(_, _)
Count(c, L) == IF c = <<>> THEN 0 ELSE (IF c[1] \in L THEN 1 ELSE 0) + Count(Tail(c), L)

\* C21: for every bundler config that references __dirname, the written
\* vite.config.js has no __dirname, every occurrence has become the
\* file-URL-based expression, and an import binding fileURLToPath is in the
\* result: the one of the input if there was one, and otherwise exactly one
\* injected import.
C21_DirnameBecomesFileUrl ==
    (/\ pc = "blade"
     /\ Out(N("vite.config", "ts")) \in DOMAIN afterCopy
     /\ Mentions(afterCopy[Out(N("vite.config", "ts"))].c, "__dirname")) =>
        LET before == afterCopy[Out(N("vite.config", "ts"))].c
            after == fs[StagedVite].c
        IN  /\ ~Mentions(after, "__dirname")
            /\ Count(after, {DirnameExpr})
                  = Count(before, {DirnameExpr}) + Count(before, {"__dirname"})
            /\ Count(after, FileUrlImports) >= 1
            /\ Count(after, FileUrlImports)
                  = IF Count(before, FileUrlImports) > 0
                    THEN Count(before, FileUrlImports) ELSE 1

\* A run is inside its convert or deploy job.
Busy(r) == fleet.run[r].phase \in {"converting", "converted", "cloned"}

\* C22: no two runs of the workflow overlap: the convert and deploy jobs of
\* one run never interleave with those of another run, and in the template
\* repository a deployment of a later-started run is never followed (and so
\* overwritten) by a deployment of an earlier-started run.
C22_RunsDoNotOverlap ==
    /\ \A r, q \in RunIds : r # q => ~(Busy(r) /\ Busy(q))
    /\ \A i, j \in 1..Len(fleet.repo) : i < j => fleet.repo[i].by < fleet.repo[j].by

\* C23: the compiler stage retries exactly once before giving up: a run
\* invokes the compiler at most twice, a second invocation follows a first
\* one that was strict, reads the same configuration and is the permissive
\* one, and the stage reports failure only after exactly two invocations.
C23_RetriesExactlyOnce ==
    /\ Len(invocations) <= 2
    /\ Len(invocations) >= 1 => ~invocations[1].permissive
    /\ Len(invocations) = 2 =>
          /\ invocations[2].permissive
          /\ invocations[2].config = invocations[1].config
    /\ outcome = "compile" => Len(invocations) = 2 /\ ~convResult

\* C23 happens: both invocations failed without output and the stage gave up.
C23_Witness ==
    /\ pc = "ended"
    /\ outcome = "compile"
    /\ Len(invocations) = 2
    /\ invocations[2].permissive

\* C24: a file-system error on one file in the classifier pass, or on one
\* entry file in the reference-rewriter pass, stays with that file: every other
\* emitted .js file with markup has been renamed, every other entry file has
\* been rewritten, and the run goes on through the following stages to its end.
C24_FileErrorsStayLocal ==
    /\ (pc = "refs" /\ env.procFail # NoPath) =>
          /\ IsFile(fs, env.procFail)
          /\ \A p \in {q \in DOMAIN emittedTree : ~emittedTree[q].dir} \ {env.procFail} :
                (Ext(Last(p)) = "js" /\ LooksLikeMarkup(emittedTree[p].c)) =>
                    /\ ~Exists(fs, p)
                    /\ IsFile(fs, JsxName(p))
                    /\ fs[JsxName(p)].c = emittedTree[p].c
    /\ (pc = "replace" /\ env.refsFail # NoPath) =>
          \A q \in (EntryFiles \cap DOMAIN fs) \ {env.refsFail} :
              ~Includes(fs[q].c, DotTsx)
    /\ (/\ pc = "ended"
        /\ \/ env.procFail \in DOMAIN emittedTree
           \/ env.refsFail # NoPath /\ emittedTree # NoTree) =>
          /\ outcome = "success"
          /\ stats.printed
          /\ IsDir(fs, OutputResourcesJs)

\* C24 happens: the classifier could not process one emitted file and did
\* rename another, and the run ended with success.
C24_Witness ==
    /\ pc = "ended"
    /\ outcome = "success"
    /\ env.procFail \in DOMAIN emittedTree
    /\ \E p \in DOMAIN emittedTree :
          /\ p # env.procFail
          /\ Ext(Last(p)) = "js"
          /\ LooksLikeMarkup(emittedTree[p].c)
          /\ IsFile(fs, Rebase(JsOutputDir, OutputResourcesJs, JsxName(p)))

\* The paths of the excluded-directory list, from the source root.
ExcludedPaths ==
    { <<D("output")>>, <<D("node_modules")>>, <<D("scripts")>>, <<D("vendor")>>,
      <<D("templates")>>, <<D("storage"), D("logs")>>, <<D(".git")>> }

\* C25: after the tree copy nothing in the staging tree lies at or under a
\* path of the excluded-directory list (output, node_modules, scripts, vendor,
\* templates, storage/logs, .git), and no file of the staging tree, at any
\* depth, has a name of the excluded-file list.
C25_ExcludedPathsNotStaged ==
    pc = "eslint" =>
        \A p \in {q \in DOMAIN fs : Inside(OutputDir, q)} :
            LET rel == SubSeq(p, Len(OutputDir) + 1, Len(p))
            IN  /\ \A e \in ExcludedPaths : ~IsPrefix(e, rel)
                /\ ~fs[p].dir => Last(rel) \notin ExcludeFiles

\* C26: the JSON report of the self-test reflects the run: a summary field
\* (prerequisites, structure, conversion, components) has the value 'passed'
\* only if the corresponding check returned success in that run.
C26_ReportReflectsRun ==
    (tpc \in {"exit", "exited"} /\ IsFile(fs, ReportPath)) =>
        LET report == fs[ReportPath].c
        IN  /\ Mentions(report, "prerequisites:passed") => checks.prerequisites
            /\ Mentions(report, "structure:passed") => checks.structure
            /\ Mentions(report, "conversion:passed") => checks.conversion
            /\ Mentions(report, "components:passed") => checks.components

\* C6: the deploy job pushes to the template repository only after a conversion
\* that completed; a conversion that stopped at a failing stage is never deployed
C6_FailedConversionNotDeployed ==
    template.pushes > 0 => outcome = "success"

\* C7: convert-jsx starts only after sync-upstream succeeded, deploy-template
\* only after convert-jsx succeeded with conversion_success 'true', and
\* notify-completion only after all three have finished, whatever their results
C7_JobsAreChained ==
    /\ job["convert-jsx"] \in Started => job["sync-upstream"] = "success"
    /\ job["deploy-template"] \in Started =>
          /\ job["convert-jsx"] = "success"
          /\ outputs.conversion_success = "true"
    /\ job["notify-completion"] \in Started =>
          \A j \in Jobs \ {"notify-completion"} : job[j] \in Finished
    /\ job["notify-completion"] # "skipped"
    /\ (job["notify-completion"] = "pending"
          /\ \A j \in Jobs \ {"notify-completion"} : job[j] \in Finished)
        => ENABLED NotifyCompletion

C7_Witness ==
    /\ job["notify-completion"] = "success"
    /\ job["deploy-template"] = "success"

\* C8: the artifact is uploaded and deployed only with the five required output
\* files in it, and the self-test's conversion check passes only if the five
\* files and the four directories exist
C8_RequiredOutputsVerified ==
    /\ artifact.uploaded =>
          \A p \in RequiredOutputFiles : p \in DOMAIN artifact.tree /\ ~artifact.tree[p].dir
    /\ job["deploy-template"] \in Started => artifact.uploaded
    /\ template.pushes > 0 =>
          \A p \in RequiredOutputFiles : p \in DOMAIN template.tree
    /\ checks.conversion =>
          /\ \A p \in RequiredOutputFiles : Exists(fs, p)
          /\ \A d \in RequiredDirNames : IsDir(fs, OutputResourcesJs \o <<d>>)

C8_Witness ==
    /\ job["deploy-template"] = "success"
    /\ template.pushes = 1

====
